---- MODULE Spec2Model ----
(***************************************************************************)
(* The queue-and-dispatch engine of concerto: the SQLite job table and     *)
(* run_locks table (core/queue.ts), the worker loop and its phase handlers *)
(* (command/worker.ts), the submitter (command/run.ts), the canceller      *)
(* (command/cancel.ts) and the handoff document (orchestrator/handoff.ts). *)
(*                                                                         *)
(* Granularity.  Workers, `run` and `cancel` are separate OS processes;    *)
(* they share the queue database and the files under .orchestrator/runs.   *)
(* Every queue operation of the worker loop is one step (claimJob and      *)
(* acquireRunLock are db.transaction()s, the others single statements).    *)
(* A phase handler is cut where it waits for an external executor (git,    *)
(* the LLM agents, the test command); the helper functions that read,      *)
(* update and write handoff.json back to back are one step each.           *)
(*                                                                         *)
(* Time.  `now` is the wall clock in ticks; every timestamp column holds   *)
(* the tick at which nowIso() was evaluated.  A live worker spends time    *)
(* only where it sleeps or waits for an executor, and its heartbeat timer  *)
(* (15 s) fires at least once per tick while it is installed.              *)
(***************************************************************************)
EXTENDS Integers, Sequences, FiniteSets, TLC

(* ------------------------------ bounds -------------------------------- *)
MaxTime == 2
MaxJobs == 3
MaxCancels == 1
MaxCrashes == 1
MaxHistory == 2
MaxHappyJobs == 5
MaxReviewJobs == 10
MaxLockAge == 3

\* run ids; the general specification drives one run, SpecTwo both
Runs == {1}
AllRuns == {1, 2}
Workers == {1, 2}

(* --------------------------- program constants ------------------------ *)
\* 5 * 60 * 1000 ms; one tick of `now` stands for 150 000 ms.
LOCK_TIMEOUT_MS == 2
MAX_ATTEMPTS == 3
\* DEFAULT_CONFIG.maxReviewRetries of the in-process pipeline
maxReviewRetries == 3

Undefined == "undefined"
NoError == "null"
RecoveredMsg == "Recovered stale in_progress job."
MaxAttemptsMsg == "Max attempts exceeded."
CancelledMsg == "Run cancelled."
CancelNote == "Cancelled by user."

VARIABLES
  now,        \* wall clock
  jobs,       \* table jobs: sequence of rows, id = index (AUTOINCREMENT)
  run_locks,  \* table run_locks: set of rows
  handoff,    \* handoff.json of each run directory, or NoFile
  submit,     \* position of the `run` command of each run
  pc,         \* position of each worker in its loop
  job,        \* the worker's `job` (the row claimJob returned), or NoJob
  wh,         \* the handler's local `handoff` / `runHandoff` value
  recovered,  \* the worker's `recovered` (result of recoverStaleQueueState)
  recovering, \* the locals of a recoverStaleQueueState call under way
  disk,       \* each run's workspace and test.json, and the tester's calls
  impl,       \* a runImplementor call: its handoff, the repository, its result
  message,    \* the `message` of the worker's catch block
  beat,       \* whether the worker's heartbeat timer has fired in this tick
  cancels     \* log of the `cancel` commands run so far

vars == <<now, jobs, run_locks, handoff, submit, pc, job, wh, recovered,
          recovering, disk, impl, message, beat, cancels>>

(* ------------------------------ queue.ts ------------------------------ *)
nowIso == now

NoJob == [id |-> 0, runId |-> 0, phase |-> "", attempt |-> 0]

\* an insert with attempt 1
enqueueJobCounted(js, runId, phase, t) ==
  Append(js, [runId |-> runId, phase |-> phase, status |-> "queued",
              attempt |-> 1, createdAt |-> t, updatedAt |-> t,
              lastError |-> NoError])

enqueueJob(js, runId, phase, t) ==
  Append(js, [runId |-> runId, phase |-> phase, status |-> "queued",
              attempt |-> 0, createdAt |-> t, updatedAt |-> t,
              lastError |-> NoError])

\* `ORDER BY created_at ASC LIMIT 1` with created_at DESC instead
claimOrderDesc(js, i, k) ==
  \/ js[i].createdAt > js[k].createdAt
  \/ js[i].createdAt = js[k].createdAt /\ i >= k

\* `WHERE status = 'queued' ORDER BY created_at ASC LIMIT 1` walks index
\* jobs_status_created_at, whose keys are (status, created_at, rowid): rows
\* with equal created_at come in the order of their id.
claimOrder(js, i, k) ==
  \/ js[i].createdAt < js[k].createdAt
  \/ js[i].createdAt = js[k].createdAt /\ i <= k

\* a claimJob whose SELECT lost its WHERE status = 'queued'
claimCandidatesAnyStatus(js) ==
  {i \in DOMAIN js : \A k \in DOMAIN js : claimOrder(js, i, k)}

claimCandidates(js) ==
  {i \in DOMAIN js :
     /\ js[i].status = "queued"
     /\ \A k \in DOMAIN js : js[k].status = "queued" => claimOrder(js, i, k)}

\* a claim that writes attempt = 1
claimUpdateFirstAttempt(js, i, t) ==
  [js EXCEPT ![i].status = "in_progress", ![i].attempt = 1, ![i].updatedAt = t]

claimUpdate(js, i, t) ==
  [js EXCEPT ![i].status = "in_progress",
             ![i].attempt = js[i].attempt + 1,
             ![i].updatedAt = t]

requeueJob(js, i, t) ==
  [js EXCEPT ![i].status = "queued", ![i].updatedAt = t]

markJobDone(js, i, t) ==
  [js EXCEPT ![i].status = "done", ![i].updatedAt = t]

markJobFailed(js, i, msg, t) ==
  [js EXCEPT ![i].status = "failed", ![i].updatedAt = t, ![i].lastError = msg]

touchJob(js, i, t) ==
  [js EXCEPT ![i].updatedAt = t]

\* a cancelRunJobs whose UPDATE says status = 'queued' only
cancelQueuedOnly(js, runId, t) ==
  [i \in DOMAIN js |->
     IF js[i].runId = runId /\ js[i].status = "queued"
       THEN [js[i] EXCEPT !.status = "cancelled", !.updatedAt = t]
       ELSE js[i]]

cancelRunJobs(js, runId, t) ==
  [i \in DOMAIN js |->
     IF js[i].runId = runId /\ js[i].status \in {"queued", "in_progress"}
       THEN [js[i] EXCEPT !.status = "cancelled", !.updatedAt = t]
       ELSE js[i]]

lockRows(ls, runId) == {l \in ls : l.runId = runId}

\* a staleness test with `>= LOCK_TIMEOUT_MS`
lockIsStaleAtTimeout(l, t) == t - l.lockedAt >= LOCK_TIMEOUT_MS

lockIsStale(l, t) == t - l.lockedAt > LOCK_TIMEOUT_MS

\* acquireRunLock: the value returned
acquireGranted(ls, runId, t) ==
  \/ lockRows(ls, runId) = {}
  \/ \E l \in lockRows(ls, runId) : lockIsStale(l, t)

\* acquireRunLock: the table after the transaction
acquireRunLock(ls, runId, owner, t) ==
  IF lockRows(ls, runId) = {}
    THEN ls \cup {[runId |-> runId, lockedAt |-> t, owner |-> owner]}
    ELSE IF \E l \in lockRows(ls, runId) : lockIsStale(l, t)
      THEN {l \in ls : l.runId # runId}
             \cup {[runId |-> runId, lockedAt |-> t, owner |-> owner]}
      ELSE ls

\* a release that deletes nothing
releaseNoRow(ls, runId, owner) == ls

releaseRunLock(ls, runId, owner) ==
  {l \in ls : ~(l.runId = runId /\ l.owner = owner)}

\* a touch with `WHERE run_id = ?` only
touchRunLockAnyOwner(ls, runId, owner, t) ==
  {IF l.runId = runId THEN [l EXCEPT !.lockedAt = t] ELSE l : l \in ls}

touchRunLock(ls, runId, owner, t) ==
  {IF l.runId = runId /\ l.owner = owner THEN [l EXCEPT !.lockedAt = t] ELSE l
     : l \in ls}

forceReleaseRunLock(ls, runId) ==
  {l \in ls : l.runId # runId}

\* a check with `job.attempt >= MAX_ATTEMPTS`
isJobAtMaxAttempts(j) == j.attempt >= MAX_ATTEMPTS

isJobOverMaxAttempts(j) == j.attempt > MAX_ATTEMPTS

\* recoverStaleQueueState
cutoff(t) == t - LOCK_TIMEOUT_MS

\* a staleness test with `parsed < cutoff`
jobIsStaleStrict(row, t) ==
  row.status = "in_progress" /\ row.updatedAt < cutoff(t)

jobIsStale(row, t) == row.status = "in_progress" /\ row.updatedAt <= cutoff(t)

staleJobIds(js, t) == {i \in DOMAIN js : jobIsStale(js[i], t)}

staleLockRunIds(js, ls, t) ==
  {js[i].runId : i \in staleJobIds(js, t)}
    \cup {l.runId : l \in {x \in ls : x.lockedAt <= cutoff(t)}}

\* a recovery whose UPDATE matches no row
recoverJobsNoUpdate(js, t) == js

recoverJobs(js, t) ==
  [i \in DOMAIN js |->
     IF i \in staleJobIds(js, t)
       THEN [js[i] EXCEPT !.status = "queued", !.updatedAt = t,
                          !.lastError = IF js[i].lastError = NoError
                                          THEN RecoveredMsg
                                          ELSE js[i].lastError]
       ELSE js[i]]

\* a recovery that deletes no lease
recoverLocksKept(js, ls, t) == ls

recoverLocks(js, ls, t) ==
  {l \in ls : l.runId \notin staleLockRunIds(js, ls, t)}

recoverResult(js, ls, t) ==
  [requeuedJobs |-> Cardinality(staleJobIds(js, t)),
   releasedLocks |-> Cardinality(ls) - Cardinality(recoverLocks(js, ls, t))]

NoRecovery == [requeuedJobs |-> 0, releasedLocks |-> 0]

\* staleJobIds, staleRunIdsFromJobs and the ids its UPDATEs changed
NotRecovering == [staleJobIds |-> {}, staleRunIdsFromJobs |-> {},
                  requeued |-> {}]

(* ----------------------------- handoff.ts ----------------------------- *)
NoFile == [missing |-> TRUE]

ArtifactKeys == {"plan", "implementation", "review", "tests", "prDraft"}

appendHistory(h, entry) ==
  [h EXCEPT !.history = Append(h.history, entry)]

\* `artifacts` is a function on a subset of ArtifactKeys (a Partial),
\* `next` an agent or Undefined, `note` a string or Undefined.
mergeArtifacts(old, partial) ==
  [k \in DOMAIN old \cup DOMAIN partial |->
     IF k \in DOMAIN partial THEN partial[k] ELSE old[k]]

\* an updateHandoff that tests `params.note !== undefined`
noteIsGiven(note) == note # Undefined

\* `params.note ? ... : ...`: undefined and the empty string are both falsy
noteIsAppended(note) == note # Undefined /\ note # ""

updateHandoff(h, phase, status, artifact, endedAt, next, artifacts, note) ==
  LET updated == appendHistory(h, [phase |-> phase, status |-> status,
                                   endedAt |-> endedAt, artifact |-> artifact])
  IN [updated EXCEPT
        !.phase = phase,
        !.status = status,
        !.artifacts = mergeArtifacts(updated.artifacts, artifacts),
        !.next = IF next # Undefined THEN next ELSE updated.next,
        !.notes = IF noteIsAppended(note)
                    THEN Append(updated.notes, note) ELSE updated.notes]

NoArtifacts == [k \in {} |-> ""]

createQueuedHandoff(next) ==
  [phase |-> "plan", status |-> "queued", history |-> <<>>,
   artifacts |-> [k \in ArtifactKeys |->
                    CASE k = "plan" -> "plan.json"
                      [] k = "implementation" -> "implementor.json"
                      [] k = "review" -> "review.json"
                      [] k = "tests" -> "test.json"
                      [] OTHER -> "pr-draft.json"],
   next |-> next, notes |-> <<>>, repoRoot |-> "",
   requireTests |-> Undefined, keepWorkspace |-> FALSE]

\* what the model keeps of a run's files besides handoff.json: whether the
\* cloned workspace directory exists, the status in test.json, and how many
\* times the external tester has been called for the run
NoDisk == [workspace |-> FALSE, testJson |-> Undefined, testerRuns |-> 0]

\* no runImplementor call under way
NoImplementor ==
  [steps |-> <<>>, allowed_files |-> {}, files |-> [p \in {} |-> ""],
   applied |-> <<>>, result |-> "idle"]

(* ------------------------------- run.ts ------------------------------- *)
Init ==
  /\ now = 0
  /\ jobs = <<>>
  /\ run_locks = {}
  /\ handoff = [r \in AllRuns |-> NoFile]
  /\ submit = [r \in AllRuns |-> "none"]
  /\ pc = [w \in Workers |-> "recover"]
  /\ job = [w \in Workers |-> NoJob]
  /\ wh = [w \in Workers |-> NoFile]
  /\ recovered = [w \in Workers |-> NoRecovery]
  /\ recovering = [w \in Workers |-> NotRecovering]
  /\ disk = [r \in AllRuns |-> NoDisk]
  /\ message = [w \in Workers |-> ""]
  /\ beat = [w \in Workers |-> FALSE]
  /\ cancels = <<>>
  /\ impl = NoImplementor

\* createRunContext, createQueuedHandoff, writeJson(handoff.json); `keep` is
\* options.keepWorkspace ?? false
SubmitWriteKeeping(r, keep) ==
  /\ submit[r] = "none"
  /\ handoff' = [handoff EXCEPT ![r] =
                   [createQueuedHandoff("planner")
                      EXCEPT !.keepWorkspace = keep]]
  /\ submit' = [submit EXCEPT ![r] = "written"]
  /\ UNCHANGED <<now, jobs, run_locks, pc, job, wh, recovered, recovering, message, beat,
                 cancels, disk, impl>>

\* `run` without --keep-workspace
SubmitWrite(r) == SubmitWriteKeeping(r, FALSE)

\* enqueueJob(run_id, "plan"); getQueueStats only feeds a log line
SubmitEnqueue(r) ==
  /\ submit[r] = "written"
  /\ Len(jobs) < MaxJobs
  /\ jobs' = enqueueJob(jobs, r, "plan", nowIso)
  /\ submit' = [submit EXCEPT ![r] = "done"]
  /\ UNCHANGED <<now, run_locks, handoff, pc, job, wh, recovered, recovering, message,
                 beat, cancels, disk, impl>>

(* ------------------------------ cancel.ts ----------------------------- *)
\* a cancel that writes what updateHandoff returns, without `next: undefined`
cancelHandoffKeepNext(h, t) ==
  IF h = NoFile THEN h
  ELSE updateHandoff(h, h.phase, "cancelled", "handoff.json", t, Undefined,
                     NoArtifacts, CancelNote)

cancelHandoff(h, t) ==
  IF h = NoFile THEN h
  ELSE [updateHandoff(h, h.phase, "cancelled", "handoff.json", t, Undefined,
                      NoArtifacts, CancelNote)
          EXCEPT !.next = Undefined]

\* the workers that are inside a phase handler of run r, past its first read
handling(r) ==
  {w \in Workers : pc[w] \in {"prep", "exec"} /\ job[w].runId = r}

\* `cancel <runId>`: the run id is the one `run` printed when it finished
Cancel(r) ==
  /\ submit[r] = "done"
  /\ Len(cancels) < MaxCancels
  /\ cancels' = Append(cancels, [runId |-> r,
                                 handling |-> {job[w].id : w \in handling(r)}])
  /\ jobs' = cancelRunJobs(jobs, r, nowIso)
  /\ run_locks' = forceReleaseRunLock(run_locks, r)
  /\ handoff' = [handoff EXCEPT ![r] = cancelHandoff(handoff[r], nowIso)]
  /\ UNCHANGED <<now, submit, pc, job, wh, recovered, recovering, disk, message,
                 beat, impl>>

(* ------------------------------ worker.ts ----------------------------- *)
\* a resolveNextPhase that does not know the pr agent
resolveNextPhaseNoPr(agent) ==
  CASE agent = "planner" -> "plan"
    [] agent = "implementer" -> "implement"
    [] agent = "reviewer" -> "review"
    [] agent = "tester" -> "test"
    [] OTHER -> ""

resolveNextPhase(agent) ==
  CASE agent = "planner" -> "plan"
    [] agent = "implementer" -> "implement"
    [] agent = "reviewer" -> "review"
    [] agent = "tester" -> "test"
    [] agent = "pr" -> "pr"
    [] OTHER -> ""

\* a markRunFailed that sets the state without calling updateHandoff
markRunFailedNoEntry(h, phase, msg, t) ==
  [h EXCEPT !.phase = phase, !.status = "failed", !.next = Undefined]

markRunFailed(h, phase, msg, t) ==
  [updateHandoff(h, phase, "failed", "handoff.json", t, Undefined,
                 NoArtifacts, msg)
     EXCEPT !.next = Undefined]

markRunInProgress(h, phase) ==
  [h EXCEPT !.phase = phase, !.status = "in_progress"]

\* the worker goes back to the top of its while (true)
loopAgain(w) ==
  /\ pc' = [pc EXCEPT ![w] = "recover"]
  /\ job' = [job EXCEPT ![w] = NoJob]
  /\ wh' = [wh EXCEPT ![w] = NoFile]
  /\ message' = [message EXCEPT ![w] = ""]
  /\ beat' = [beat EXCEPT ![w] = FALSE]

Recover(w) ==
  /\ pc[w] = "recover"
  /\ jobs' = recoverJobs(jobs, now)
  /\ run_locks' = recoverLocks(jobs, run_locks, now)
  /\ recovered' = [recovered EXCEPT ![w] = recoverResult(jobs, run_locks, now)]
  /\ UNCHANGED recovering
  /\ pc' = [pc EXCEPT ![w] = "claim"]
  /\ UNCHANGED <<now, handoff, submit, job, wh, message, beat, cancels, disk,
                 impl>>

\* claimJob found no queued row: sleep(WORKER_SLEEP_MS), continue
ClaimNone(w) ==
  /\ pc[w] = "claim"
  /\ claimCandidates(jobs) = {}
  /\ pc' = [pc EXCEPT ![w] = "recover"]
  /\ recovered' = [recovered EXCEPT ![w] = NoRecovery]
  /\ UNCHANGED recovering
  /\ UNCHANGED <<now, jobs, run_locks, handoff, submit, job, wh, message,
                 beat, cancels, disk, impl>>

ClaimOne(w) ==
  /\ pc[w] = "claim"
  /\ \E i \in claimCandidates(jobs) :
       /\ jobs' = claimUpdate(jobs, i, nowIso)
       /\ job' = [job EXCEPT ![w] = [id |-> i, runId |-> jobs[i].runId,
                                     phase |-> jobs[i].phase,
                                     attempt |-> jobs[i].attempt + 1]]
  /\ pc' = [pc EXCEPT ![w] = "acquire"]
  /\ recovered' = [recovered EXCEPT ![w] = NoRecovery]
  /\ UNCHANGED recovering
  /\ UNCHANGED <<now, run_locks, handoff, submit, wh, message, beat, cancels,
                 disk, impl>>

MaxAttempts(w) ==
  /\ pc[w] = "acquire"
  /\ isJobOverMaxAttempts(job[w])
  /\ jobs' = markJobFailed(jobs, job[w].id, MaxAttemptsMsg, nowIso)
  /\ loopAgain(w)
  /\ UNCHANGED <<now, run_locks, handoff, submit, recovered, recovering, cancels,
                 disk, impl>>

Acquire(w) ==
  /\ pc[w] = "acquire"
  /\ ~isJobOverMaxAttempts(job[w])
  /\ run_locks' = acquireRunLock(run_locks, job[w].runId, w, nowIso)
  /\ pc' = [pc EXCEPT ![w] =
              IF acquireGranted(run_locks, job[w].runId, nowIso)
                THEN "inprogress" ELSE "requeue"]
  /\ UNCHANGED <<now, jobs, handoff, submit, job, wh, recovered, recovering, message,
                 beat, cancels, disk, impl>>

Requeue(w) ==
  /\ pc[w] = "requeue"
  /\ jobs' = requeueJob(jobs, job[w].id, nowIso)
  /\ loopAgain(w)
  /\ UNCHANGED <<now, run_locks, handoff, submit, recovered, recovering, cancels,
                 disk, impl>>

\* markRunInProgress, then setInterval(heartbeat)
MarkInProgress(w) ==
  /\ pc[w] = "inprogress"
  /\ IF handoff[job[w].runId] = NoFile
       THEN /\ pc' = [pc EXCEPT ![w] = "catch"]
            /\ message' = [message EXCEPT ![w] = "ENOENT"]
            /\ UNCHANGED <<handoff, beat>>
       ELSE /\ handoff' = [handoff EXCEPT ![job[w].runId] =
                             markRunInProgress(@, job[w].phase)]
            /\ pc' = [pc EXCEPT ![w] = "read"]
            /\ beat' = [beat EXCEPT ![w] = TRUE]
            /\ UNCHANGED message
  /\ UNCHANGED <<now, jobs, run_locks, submit, job, wh, recovered, recovering, cancels,
                 disk, impl>>

ExecError == "Executor failed."

\* markRunInProgress rejects (the handoff cannot be read or written): the
\* heartbeat is never started
MarkInProgressThrows(w) ==
  /\ pc[w] = "inprogress"
  /\ pc' = [pc EXCEPT ![w] = "catch"]
  /\ message' = [message EXCEPT ![w] = ExecError]
  /\ UNCHANGED <<now, jobs, run_locks, handoff, submit, job, wh, recovered,
                 recovering, beat, cancels, disk, impl>>

\* the heartbeat callback: touchJob, touchRunLock
Heartbeat(w) ==
  /\ pc[w] \in {"prep", "exec"}
  /\ ~beat[w]
  /\ jobs' = touchJob(jobs, job[w].id, nowIso)
  /\ run_locks' = touchRunLock(run_locks, job[w].runId, w, nowIso)
  /\ beat' = [beat EXCEPT ![w] = TRUE]
  /\ UNCHANGED <<now, handoff, submit, pc, job, wh, recovered, recovering, message,
                 cancels, disk, impl>>

\* every handler starts with readRunHandoffFile and the cancelled check
HandlerRead(w) ==
  /\ pc[w] = "read"
  /\ LET h == handoff[job[w].runId]
     IN IF h.status = "cancelled"
          THEN /\ pc' = [pc EXCEPT ![w] = "catch"]
               /\ message' = [message EXCEPT ![w] = CancelledMsg]
               /\ beat' = [beat EXCEPT ![w] = FALSE]
               /\ UNCHANGED wh
          ELSE /\ wh' = [wh EXCEPT ![w] = h]
               /\ pc' = [pc EXCEPT ![w] =
                           IF job[w].phase = "plan" THEN "prep" ELSE "exec"]
               /\ UNCHANGED <<message, beat>>
  /\ UNCHANGED <<now, jobs, run_locks, handoff, submit, job, recovered, recovering,
                 cancels, disk, impl>>

\* handlePlan: cloneRepo, resolveBaseBranch, createWorkBranch, then
\* writeJson(handoffPath, { ...handoff, run: updatedRun })
PlanPrep(w) ==
  /\ pc[w] = "prep"
  /\ wh' = [wh EXCEPT ![w].repoRoot = "workspace"]
  /\ handoff' = [handoff EXCEPT ![job[w].runId] = wh'[w]]
  /\ pc' = [pc EXCEPT ![w] = "exec"]
  /\ disk' = [disk EXCEPT ![job[w].runId].workspace = TRUE]
  /\ UNCHANGED <<now, jobs, run_locks, submit, job, recovered, recovering, message, beat,
                 cancels, impl>>

\* an await of the handler rejects (git, a missing artifact, a parse error)
HandlerThrows(w) ==
  /\ pc[w] \in {"prep", "exec"}
  /\ pc' = [pc EXCEPT ![w] = "catch"]
  /\ message' = [message EXCEPT ![w] = ExecError]
  /\ beat' = [beat EXCEPT ![w] = FALSE]
  /\ UNCHANGED <<now, jobs, run_locks, handoff, submit, job, wh, recovered, recovering,
                 cancels, disk, impl>>

Succeeding == {"tests", "notests", "ok", "approved", "passed", "skipped"}
AnyOutcome == Succeeding \cup {"rejected", "blocked", "notpassed", "error"}

\* constraints?.requireTestsForBehaviorChange ?? true
testsRequired(h) == h.requireTests # "false"

\* what the external executor of a phase can answer
Outcomes(phase, h) ==
  CASE phase = "plan" -> {"tests", "notests", "error"}
    [] phase = "implement" -> {"ok", "error"}
    [] phase = "review" -> {"approved", "rejected", "blocked", "error"}
    [] phase = "test" -> IF ~testsRequired(h) THEN {"skipped"}
                         ELSE {"passed", "notpassed", "error"}
    [] OTHER -> {"ok"}

\* the handoff a handler writes when its executor answered `out` (not "error")
handlerHandoff(phase, h, out, t) ==
  CASE phase = "plan" ->
         [updateHandoff(h, "plan", "completed", "plan.json", t, "implementer",
                        NoArtifacts, Undefined)
            EXCEPT !.requireTests = IF out = "tests" THEN "true" ELSE "false"]
    [] phase = "implement" ->
         updateHandoff(h, "implement", "completed", "implementor.json", t,
                       "reviewer",
                       [k \in {"implementation"} |-> "implementor.json"],
                       Undefined)
    [] phase = "review" ->
         updateHandoff(h, "review", "completed", "review.json", t,
                       IF out = "approved" THEN "tester" ELSE "implementer",
                       [k \in {"review"} |-> "review.json"], Undefined)
    [] phase = "test" ->
         updateHandoff(h, "test", "completed", "test.json", t,
                       IF out \in {"skipped", "passed"} THEN "pr"
                       ELSE "implementer",
                       [k \in {"tests"} |-> "test.json"], Undefined)
    [] OTHER ->
         [updateHandoff(h, "pr", "completed", "pr-draft.json", t, Undefined,
                        [k \in {"prDraft"} |-> "pr-draft.json"], Undefined)
            EXCEPT !.next = Undefined]

\* a handlePr that always removes the workspace
handlerDiskRemoving(phase, h, out, d) ==
  CASE phase = "test" ->
         [d EXCEPT !.testJson = CASE out = "notpassed" -> "failed"
                                  [] out = "error" -> @
                                  [] OTHER -> "passed",
                   !.testerRuns = IF out = "skipped" THEN @ ELSE @ + 1]
    [] phase = "pr" -> [d EXCEPT !.workspace = FALSE]
    [] OTHER -> d

\* a handleTest whose skip branch writes the tester's "skipped" status
handlerDiskSkipped(phase, h, out, d) ==
  CASE phase = "test" ->
         [d EXCEPT !.testJson = CASE out = "notpassed" -> "failed"
                                  [] out = "error" -> @
                                  [] out = "skipped" -> "skipped"
                                  [] OTHER -> "passed",
                   !.testerRuns = IF out = "skipped" THEN @ ELSE @ + 1]
    [] phase = "pr" ->
         [d EXCEPT !.workspace =
            IF ~h.keepWorkspace /\ h.repoRoot # "" THEN FALSE ELSE @]
    [] OTHER -> d

\* what a handler leaves in the run directory and the workspace besides
\* handoff.json when its executor answered `out`: handleTest writes
\* test.json (the skipped result has status "passed") and calls runTester
\* unless the tests are skipped; handlePr removes the workspace
handlerDisk(phase, h, out, d) ==
  CASE phase = "test" ->
         [d EXCEPT !.testJson = CASE out = "notpassed" -> "failed"
                                  [] out = "error" -> @
                                  [] OTHER -> "passed",
                   !.testerRuns = IF out = "skipped" THEN @ ELSE @ + 1]
    [] phase = "pr" ->
         [d EXCEPT !.workspace =
            IF ~h.keepWorkspace /\ h.repoRoot # "" THEN FALSE ELSE @]
    [] OTHER -> d

\* the executor returned: write the artifacts and handoff.json
HandlerDone(w, allowed) ==
  /\ pc[w] = "exec"
  /\ \E out \in Outcomes(job[w].phase, wh[w]) \cap allowed :
       /\ disk' = [disk EXCEPT ![job[w].runId] =
                     handlerDisk(job[w].phase, wh[w], out, @)]
       /\ IF out = "error"
         THEN \* markRunFailed(...); return
              /\ handoff' = [handoff EXCEPT ![job[w].runId] =
                               markRunFailed(@, job[w].phase, ExecError, now)]
              /\ pc' = [pc EXCEPT ![w] = "ack"]
              /\ UNCHANGED wh
         ELSE /\ wh' = [wh EXCEPT ![w] =
                          handlerHandoff(job[w].phase, @, out, now)]
              /\ handoff' = [handoff EXCEPT ![job[w].runId] = wh'[w]]
              /\ pc' = [pc EXCEPT ![w] =
                          IF job[w].phase = "pr" THEN "ack" ELSE "enqueue"]
  /\ UNCHANGED <<now, jobs, run_locks, submit, job, recovered, recovering, message, beat,
                 cancels, impl>>

\* enqueueNext(updated.next?.agent, runId), while the table has room
EnqueueNextWithin(w, cap) ==
  /\ pc[w] = "enqueue"
  /\ Len(jobs) < cap
  /\ jobs' = IF resolveNextPhase(wh[w].next) = "" THEN jobs
             ELSE enqueueJob(jobs, job[w].runId, resolveNextPhase(wh[w].next),
                             nowIso)
  /\ pc' = [pc EXCEPT ![w] = "ack"]
  /\ UNCHANGED <<now, run_locks, handoff, submit, job, wh, recovered, recovering, message,
                 beat, cancels, disk, impl>>

EnqueueNext(w) == EnqueueNextWithin(w, MaxJobs)

\* markJobDone(job.id); finally clearInterval(heartbeat)
MarkDone(w) ==
  /\ pc[w] = "ack"
  /\ jobs' = markJobDone(jobs, job[w].id, nowIso)
  /\ pc' = [pc EXCEPT ![w] = "release"]
  /\ beat' = [beat EXCEPT ![w] = FALSE]
  /\ UNCHANGED <<now, run_locks, handoff, submit, job, wh, recovered, recovering, message,
                 cancels, disk, impl>>

isNeverCancelMessage(msg) == FALSE

\* message.toLowerCase().includes("run cancelled"), over the messages thrown
isCancelMessage(msg) == msg = CancelledMsg

\* catch (error): markJobFailed(job.id, message)
Catch(w) ==
  /\ pc[w] = "catch"
  /\ jobs' = markJobFailed(jobs, job[w].id, message[w], nowIso)
  /\ pc' = [pc EXCEPT ![w] =
              IF isCancelMessage(message[w]) THEN "release" ELSE "failrun"]
  /\ UNCHANGED <<now, run_locks, handoff, submit, job, wh, recovered, recovering, message,
                 beat, cancels, disk, impl>>

\* try { markRunFailed(...) } catch { ignore }
FailRun(w) ==
  /\ pc[w] = "failrun"
  /\ handoff' = [handoff EXCEPT ![job[w].runId] =
                   IF @ = NoFile THEN @
                   ELSE markRunFailed(@, job[w].phase, message[w], now)]
  /\ pc' = [pc EXCEPT ![w] = "release"]
  /\ UNCHANGED <<now, jobs, run_locks, submit, job, wh, recovered, recovering, message,
                 beat, cancels, disk, impl>>

\* finally: releaseRunLock(runId, workerId)
Release(w) ==
  /\ pc[w] = "release"
  /\ run_locks' = releaseRunLock(run_locks, job[w].runId, w)
  /\ loopAgain(w)
  /\ UNCHANGED <<now, jobs, handoff, submit, recovered, recovering, cancels,
                 disk, impl>>

alive(w) == pc[w] # "crashed"

\* kill -9 of a worker process: its memory is gone, its rows stay.  Workers
\* are interchangeable, so the k-th kill takes worker k.  job[w] keeps
\* naming the row the dead worker had claimed.
Crash(w) ==
  /\ alive(w)
  /\ Cardinality({v \in Workers : ~alive(v)}) < MaxCrashes
  /\ \A v \in Workers : v < w => ~alive(v)
  /\ pc' = [pc EXCEPT ![w] = "crashed"]
  /\ wh' = [wh EXCEPT ![w] = NoFile]
  /\ message' = [message EXCEPT ![w] = ""]
  /\ beat' = [beat EXCEPT ![w] = FALSE]
  /\ recovered' = [recovered EXCEPT ![w] = NoRecovery]
  /\ recovering' = [recovering EXCEPT ![w] = NotRecovering]
  /\ UNCHANGED <<now, jobs, run_locks, handoff, submit, job, cancels, disk,
                 impl>>

\* where a live worker spends time: sleep(), or an await of an executor
waiting(w) == pc[w] \in {"recover", "prep", "exec", "crashed"}

Tick ==
  /\ now < MaxTime
  /\ \A w \in Workers : waiting(w)
  /\ \A w \in Workers : pc[w] \in {"prep", "exec"} => beat[w]
  /\ now' = now + 1
  /\ beat' = [w \in Workers |-> FALSE]
  /\ UNCHANGED <<jobs, run_locks, handoff, submit, pc, job, wh, recovered, recovering,
                 message, cancels, disk, impl>>

\* the steps of the worker loop outside the phase handlers
LoopStep(w) ==
  \/ Recover(w)
  \/ ClaimNone(w)
  \/ ClaimOne(w)
  \/ MaxAttempts(w)
  \/ Acquire(w)
  \/ Requeue(w)
  \/ MarkInProgress(w)
  \/ HandlerRead(w)
  \/ PlanPrep(w)
  \/ EnqueueNext(w)
  \/ MarkDone(w)
  \/ Catch(w)
  \/ FailRun(w)
  \/ Release(w)

(* One run, two workers, the clock, `cancel` and a killed worker. *)
Next ==
  \/ \E r \in Runs : SubmitWrite(r)
  \/ \E r \in Runs : SubmitEnqueue(r)
  \/ \E r \in Runs : Cancel(r)
  \/ \E w \in Workers : LoopStep(w)
  \/ \E w \in Workers : Heartbeat(w)
  \/ \E w \in Workers : HandlerThrows(w)
  \/ \E w \in Workers : HandlerDone(w, AnyOutcome)
  \/ \E w \in Workers : Crash(w)
  \/ Tick

Spec == Init /\ [][Next]_vars

(* Two runs, two workers and `cancel`, within one reading of the clock. *)
NextTwo ==
  \/ \E r \in AllRuns : SubmitWrite(r)
  \/ \E r \in AllRuns : SubmitEnqueue(r)
  \/ \E r \in AllRuns : Cancel(r)
  \/ \E w \in Workers : LoopStep(w)
  \/ \E w \in Workers : HandlerThrows(w)
  \/ \E w \in Workers : HandlerDone(w, AnyOutcome)

SpecTwo == Init /\ [][NextTwo]_vars

(* The crash of section E4: one run, no `cancel`, executors that succeed;  *)
(* worker 1 may be killed inside a phase handler, worker 2 keeps running.  *)
(* A live worker keeps taking steps, and the clock keeps advancing.        *)
CrashWorkerStep(w) ==
  \/ Recover(w)
  \/ ClaimNone(w)
  \/ ClaimOne(w)
  \/ MaxAttempts(w)
  \/ Acquire(w)
  \/ Requeue(w)
  \/ MarkInProgress(w)
  \/ HandlerRead(w)
  \/ PlanPrep(w)
  \/ Heartbeat(w)
  \/ HandlerDone(w, Succeeding)
  \/ EnqueueNext(w)
  \/ MarkDone(w)
  \/ Release(w)

CrashInHandler ==
  /\ pc[1] \in {"read", "prep", "exec"}
  /\ Crash(1)

NextCrash ==
  \/ \E r \in Runs : SubmitWrite(r)
  \/ \E r \in Runs : SubmitEnqueue(r)
  \/ \E w \in Workers : CrashWorkerStep(w)
  \/ CrashInHandler
  \/ Tick

SpecCrash ==
  /\ Init
  /\ [][NextCrash]_vars
  /\ \A w \in Workers : WF_vars(CrashWorkerStep(w))
  /\ SF_vars(Tick)

(* updateHandoff alone: a caller applies it, with any parameters, to the   *)
(* handoff of run 1, starting from the document `run` wrote.               *)
PhaseParams == {"plan", "review"}
StatusParams == {"completed", "failed"}
NextParams == {Undefined, "reviewer"}
ArtifactsParams ==
  {NoArtifacts, [k \in {"plan"} |-> "plan-2.json"],
   [k \in {"review", "tests"} |-> "rerun.json"]}
NoteParams == {Undefined, "", ExecError}

UpdateCall ==
  /\ handoff[1] # NoFile
  /\ Len(handoff[1].history) < MaxHistory
  /\ \E phase \in PhaseParams, status \in StatusParams, next \in NextParams,
        artifacts \in ArtifactsParams, note \in NoteParams :
       handoff' = [handoff EXCEPT ![1] =
                     updateHandoff(@, phase, status, "handoff.json", nowIso,
                                   next, artifacts, note)]
  /\ UNCHANGED <<now, jobs, run_locks, submit, pc, job, wh, recovered, recovering,
                 message, beat, cancels, disk, impl>>

NextHandoff ==
  \/ SubmitWrite(1)
  \/ UpdateCall

SpecHandoff == Init /\ [][NextHandoff]_vars

(* The happy path of section E1: one run, one worker, every executor      *)
(* succeeds, the plan requires tests, the reviewer approves and the tests  *)
(* pass.  `run` and the worker keep taking their steps.                    *)
Happy == {"tests", "ok", "approved", "passed"}

HappyStep(w) ==
  \/ Recover(w)
  \/ ClaimNone(w)
  \/ ClaimOne(w)
  \/ Acquire(w)
  \/ MarkInProgress(w)
  \/ HandlerRead(w)
  \/ PlanPrep(w)
  \/ Heartbeat(w)
  \/ HandlerDone(w, Happy)
  \/ EnqueueNextWithin(w, MaxHappyJobs)
  \/ MarkDone(w)
  \/ Release(w)

HappySubmit ==
  \/ SubmitWrite(1)
  \/ SubmitEnqueue(1)

NextHappy ==
  \/ HappySubmit
  \/ HappyStep(1)
  \/ Tick

SpecHappy ==
  /\ Init
  /\ [][NextHappy]_vars
  /\ WF_vars(HappySubmit)
  /\ WF_vars(HappyStep(1))

(* A reviewer that never approves: one run, one worker, planner and        *)
(* implementor succeed, and every review ends with the given decision.     *)
ReviewStep(w, outs) ==
  \/ Recover(w)
  \/ ClaimNone(w)
  \/ ClaimOne(w)
  \/ Acquire(w)
  \/ MarkInProgress(w)
  \/ HandlerRead(w)
  \/ PlanPrep(w)
  \/ Heartbeat(w)
  \/ HandlerDone(w, outs)
  \/ EnqueueNextWithin(w, MaxReviewJobs)
  \/ MarkDone(w)
  \/ Release(w)

NextReview(outs) ==
  \/ HappySubmit
  \/ ReviewStep(1, outs)
  \/ Tick

Rejecting == {"tests", "notests", "ok", "rejected"}
Blocking == {"tests", "notests", "ok", "blocked"}

NextRejected == NextReview(Rejecting)
SpecRejected == Init /\ [][NextRejected]_vars

NextBlocked == NextReview(Blocking)
SpecBlocked == Init /\ [][NextBlocked]_vars

(* Two runs submitted concurrently, two workers, executors that succeed    *)
(* (section E3); nobody cancels and no worker is killed.                   *)
NextPair ==
  \/ \E r \in AllRuns : SubmitWrite(r)
  \/ \E r \in AllRuns : SubmitEnqueue(r)
  \/ \E w \in Workers : CrashWorkerStep(w)
  \/ Tick

SpecPair == Init /\ [][NextPair]_vars

(* A run whose handlers can fail: one run, one worker, an await of the     *)
(* handler may reject, an executor may answer not-ok, and `cancel` may     *)
(* arrive at any point.                                                    *)
Failing == Succeeding \cup {"error"}

FailStepWithin(w, cap) ==
  \/ Recover(w)
  \/ ClaimNone(w)
  \/ ClaimOne(w)
  \/ Acquire(w)
  \/ MarkInProgress(w)
  \/ MarkInProgressThrows(w)
  \/ HandlerRead(w)
  \/ PlanPrep(w)
  \/ HandlerThrows(w)
  \/ Heartbeat(w)
  \/ HandlerDone(w, Failing)
  \/ EnqueueNextWithin(w, cap)
  \/ MarkDone(w)
  \/ Catch(w)
  \/ FailRun(w)
  \/ Release(w)

FailStep(w) == FailStepWithin(w, MaxJobs)

NextFail ==
  \/ HappySubmit
  \/ Cancel(1)
  \/ FailStep(1)
  \/ Tick

SpecFail == Init /\ [][NextFail]_vars

(* The same run followed to its end: room for the five jobs of a run, so   *)
(* that every terminal state (failed, cancelled, pr completed) is reached. *)
NextTerminal ==
  \/ HappySubmit
  \/ Cancel(1)
  \/ FailStepWithin(1, MaxHappyJobs)
  \/ Tick

SpecTerminal == Init /\ [][NextTerminal]_vars

(* Tests that do not pass: one run, one worker, the plan requires tests,   *)
(* the reviewer approves and the tester reports a status other than        *)
(* "passed".                                                               *)
NotPassing == {"tests", "ok", "approved", "notpassed"}

NextNotPassed == NextReview(NotPassing)
SpecNotPassed == Init /\ [][NextNotPassed]_vars

(* recoverStaleQueueState statement by statement.  It opens no            *)
(* transaction, and every worker is a process of its own on the same       *)
(* database file, so other workers' statements can fall between its        *)
(* SELECT of the in_progress rows, its UPDATEs and its DELETEs.            *)

\* SELECT ... FROM jobs WHERE status = 'in_progress', and the loop that
\* fills staleJobIds and staleRunIdsFromJobs
RecoverSelect(w) ==
  /\ pc[w] = "recover"
  /\ recovering' = [recovering EXCEPT ![w] =
                      [staleJobIds |-> staleJobIds(jobs, now),
                       staleRunIdsFromJobs |->
                         {jobs[i].runId : i \in staleJobIds(jobs, now)},
                       requeued |-> {}]]
  /\ pc' = [pc EXCEPT ![w] = "recover_update"]
  /\ UNCHANGED <<now, jobs, run_locks, handoff, submit, job, wh, recovered,
                 message, beat, cancels, disk, impl>>

\* UPDATE jobs SET status = 'queued', ... WHERE id = ? AND status =
\* 'in_progress', for each id of staleJobIds
RecoverUpdate(w) ==
  /\ pc[w] = "recover_update"
  /\ LET hit == {i \in recovering[w].staleJobIds :
                   jobs[i].status = "in_progress"}
     IN /\ jobs' = [i \in DOMAIN jobs |->
                      IF i \in hit
                        THEN [jobs[i] EXCEPT
                                !.status = "queued", !.updatedAt = now,
                                !.lastError = IF jobs[i].lastError = NoError
                                                THEN RecoveredMsg
                                                ELSE jobs[i].lastError]
                        ELSE jobs[i]]
        /\ recovering' = [recovering EXCEPT ![w].requeued = hit]
  /\ pc' = [pc EXCEPT ![w] = "recover_locks"]
  /\ UNCHANGED <<now, run_locks, handoff, submit, job, wh, recovered, message,
                 beat, cancels, disk, impl>>

\* SELECT run_id, locked_at FROM run_locks, then DELETE FROM run_locks
\* WHERE run_id = ? for each run of staleLockRunIds
RecoverLocks(w) ==
  /\ pc[w] = "recover_locks"
  /\ LET ids == recovering[w].staleRunIdsFromJobs
                  \cup {l.runId : l \in {x \in run_locks :
                                           x.lockedAt <= cutoff(now)}}
         kept == {l \in run_locks : l.runId \notin ids}
     IN /\ run_locks' = kept
        /\ recovered' = [recovered EXCEPT ![w] =
                           [requeuedJobs |->
                              Cardinality(recovering[w].requeued),
                            releasedLocks |->
                              Cardinality(run_locks) - Cardinality(kept)]]
  /\ pc' = [pc EXCEPT ![w] = "claim"]
  /\ UNCHANGED <<now, jobs, handoff, submit, job, wh, recovering, message,
                 beat, cancels, disk, impl>>

\* An earlier worker process (owner 0) was killed inside handlePlan of run 1
\* at time 0, and LOCK_TIMEOUT_MS has passed: its job row and its lease are
\* as it left them.
InitOrphan ==
  /\ now = LOCK_TIMEOUT_MS
  /\ jobs = <<[runId |-> 1, phase |-> "plan", status |-> "in_progress",
               attempt |-> 1, createdAt |-> 0, updatedAt |-> 0,
               lastError |-> NoError]>>
  /\ run_locks = {[runId |-> 1, lockedAt |-> 0, owner |-> 0]}
  /\ handoff = [r \in AllRuns |->
                  IF r = 1
                    THEN [markRunInProgress(createQueuedHandoff("planner"),
                                            "plan")
                            EXCEPT !.repoRoot = "workspace"]
                    ELSE NoFile]
  /\ submit = [r \in AllRuns |-> IF r = 1 THEN "done" ELSE "none"]
  /\ pc = [w \in Workers |-> "recover"]
  /\ job = [w \in Workers |-> NoJob]
  /\ wh = [w \in Workers |-> NoFile]
  /\ recovered = [w \in Workers |-> NoRecovery]
  /\ recovering = [w \in Workers |-> NotRecovering]
  /\ disk = [r \in AllRuns |->
               IF r = 1 THEN [NoDisk EXCEPT !.workspace = TRUE] ELSE NoDisk]
  /\ message = [w \in Workers |-> ""]
  /\ beat = [w \in Workers |-> FALSE]
  /\ cancels = <<>>
  /\ impl = NoImplementor

RecoverStep(w) ==
  \/ RecoverSelect(w)
  \/ RecoverUpdate(w)
  \/ RecoverLocks(w)
  \/ ClaimNone(w)
  \/ ClaimOne(w)
  \/ MaxAttempts(w)
  \/ Acquire(w)
  \/ Requeue(w)
  \/ MarkInProgress(w)
  \/ HandlerRead(w)
  \/ PlanPrep(w)
  \/ HandlerDone(w, Succeeding)
  \/ EnqueueNext(w)
  \/ MarkDone(w)
  \/ Release(w)

NextOrphan == \E w \in Workers : RecoverStep(w)

SpecOrphan == InitOrphan /\ [][NextOrphan]_vars

(* acquireRunLock on every lease table: both workers have claimed a job    *)
(* and are about to call acquireRunLock, the runs' leases are absent or    *)
(* held by either worker or by an earlier process (owner 0), fresh or old. *)
NoLock == [lockedAt |-> 0, owner |-> 3]

\* run_id is the primary key of run_locks: at most one row for a run
LockTables(t) ==
  {{[runId |-> r, lockedAt |-> f[r].lockedAt, owner |-> f[r].owner] :
      r \in {x \in AllRuns : f[x] # NoLock}} :
     f \in [AllRuns -> [lockedAt : 0..t, owner : 0..2] \cup {NoLock}]}

InitLease ==
  /\ now \in 0..MaxLockAge
  /\ run_locks \in LockTables(now)
  /\ \E r1, r2 \in AllRuns :
       /\ jobs = <<[runId |-> r1, phase |-> "plan", status |-> "in_progress",
                    attempt |-> 1, createdAt |-> now, updatedAt |-> now,
                    lastError |-> NoError],
                   [runId |-> r2, phase |-> "plan", status |-> "in_progress",
                    attempt |-> 1, createdAt |-> now, updatedAt |-> now,
                    lastError |-> NoError]>>
       /\ job = [w \in Workers |->
                   [id |-> w, runId |-> IF w = 1 THEN r1 ELSE r2,
                    phase |-> "plan", attempt |-> 1]]
  /\ handoff = [r \in AllRuns |-> createQueuedHandoff("planner")]
  /\ submit = [r \in AllRuns |-> "done"]
  /\ pc = [w \in Workers |-> "acquire"]
  /\ wh = [w \in Workers |-> NoFile]
  /\ recovered = [w \in Workers |-> NoRecovery]
  /\ recovering = [w \in Workers |-> NotRecovering]
  /\ disk = [r \in AllRuns |-> NoDisk]
  /\ message = [w \in Workers |-> ""]
  /\ beat = [w \in Workers |-> FALSE]
  /\ cancels = <<>>
  /\ impl = NoImplementor

NextLease == \E w \in Workers : Acquire(w)

SpecLease == InitLease /\ [][NextLease]_vars

(* ------------------------------ properties ---------------------------- *)

\* C1: with several workers calling claimJob concurrently, every step that
\* moves a row from queued to in_progress hands that row to exactly one
\* caller and raises its attempt by exactly 1; a caller is handed a row only
\* by such a step; and a call that finds no queued row hands out nothing.
C1_ClaimExactlyOnce ==
  [][/\ \A i \in DOMAIN jobs :
          (jobs[i].status = "queued" /\ jobs'[i].status = "in_progress") =>
            /\ Cardinality({w \in Workers :
                              job[w] = NoJob /\ job'[w].id = i}) = 1
            /\ jobs'[i].attempt = jobs[i].attempt + 1
     /\ \A w \in Workers :
          (job[w] = NoJob /\ job'[w] # NoJob) =>
            /\ job'[w].id \in DOMAIN jobs
            /\ jobs[job'[w].id].status = "queued"
            /\ jobs'[job'[w].id].status = "in_progress"
            /\ job'[w].attempt = jobs'[job'[w].id].attempt
     /\ \A w \in Workers :
          (pc[w] = "claim"
             /\ \A i \in DOMAIN jobs : jobs[i].status # "queued") =>
            job'[w] = NoJob
    ]_vars

\* two workers have claimed concurrently and hold two different rows
C1_Witness ==
  /\ pc[1] = "acquire" /\ pc[2] = "acquire"
  /\ job[1].id # job[2].id
  /\ jobs[job[1].id].status = "in_progress" /\ jobs[job[1].id].attempt = 1
  /\ jobs[job[2].id].status = "in_progress" /\ jobs[job[2].id].attempt = 1

C3_OneActiveJobPerRun ==
  \A r \in AllRuns :
    Cardinality({i \in DOMAIN jobs :
                   /\ jobs[i].runId = r
                   /\ jobs[i].status \in {"queued", "in_progress"}}) <= 1

\* C4: between its successful acquireRunLock and its releaseRunLock a worker
\* is the only one acting on the run, and run_locks never holds more than
\* one row for a run.
C4_OneWorkerPerRun ==
  \A r \in AllRuns :
    /\ Cardinality({w \in Workers :
                      /\ pc[w] \in {"inprogress", "read", "prep", "exec",
                                    "enqueue", "ack", "catch", "failrun",
                                    "release"}
                      /\ job[w].runId = r}) <= 1
    /\ Cardinality({l \in run_locks : l.runId = r}) <= 1

C6_CancelDuringPlan ==
  [][\A w \in Workers :
       (/\ pc[w] = "release" /\ pc'[w] = "recover"
        /\ job[w].phase = "plan"
        /\ \E k \in DOMAIN cancels : job[w].id \in cancels[k].handling) =>
         /\ jobs'[job[w].id].status = "failed"
         /\ jobs'[job[w].id].lastError = CancelledMsg
         /\ handoff'[job[w].runId].status = "cancelled"
         /\ \A i \in DOMAIN jobs' :
              ~(jobs'[i].runId = job[w].runId /\ jobs'[i].phase = "implement")
         /\ {l \in run_locks' : l.runId = job[w].runId} = {}
    ]_vars

\* C7: a job's status changes only queued -> in_progress, in_progress ->
\* done | failed | queued, and queued | in_progress -> cancelled; done,
\* failed and cancelled never change (so a cancelled job is never claimed).
C7_StatusTransitions ==
  [][\A i \in DOMAIN jobs :
       \/ jobs'[i].status = jobs[i].status
       \/ /\ jobs[i].status = "queued"
          /\ jobs'[i].status \in {"in_progress", "cancelled"}
       \/ /\ jobs[i].status = "in_progress"
          /\ jobs'[i].status \in {"done", "failed", "queued", "cancelled"}
    ]_vars

\* C8: recoverStaleQueueState on a state without stale jobs and stale locks
\* changes nothing and returns {0, 0}; run twice in succession on a state
\* with K stale jobs it returns requeuedJobs = K the first time, {0, 0} the
\* second time, and the second run changes nothing.
C8_RecoverIdempotent ==
  LET K == Cardinality({i \in DOMAIN jobs :
                          /\ jobs[i].status = "in_progress"
                          /\ now - jobs[i].updatedAt >= LOCK_TIMEOUT_MS})
      staleLocks == {l \in run_locks : now - l.lockedAt >= LOCK_TIMEOUT_MS}
      j1 == recoverJobs(jobs, now)
      l1 == recoverLocks(jobs, run_locks, now)
  IN /\ (K = 0 /\ staleLocks = {}) =>
          /\ j1 = jobs /\ l1 = run_locks
          /\ recoverResult(jobs, run_locks, now) = NoRecovery
     /\ recoverResult(jobs, run_locks, now).requeuedJobs = K
     /\ recoverResult(j1, l1, now) = NoRecovery
     /\ recoverJobs(j1, now) = j1
     /\ recoverLocks(j1, l1, now) = l1

\* a worker has just run the recovery and it requeued a job and released
\* a lock; its next call follows at the same reading of the clock
C8_Witness ==
  \E w \in Workers :
    /\ pc[w] = "claim"
    /\ recovered[w].requeuedJobs >= 1
    /\ recovered[w].releasedLocks >= 1

\* worker 1 was killed while it held a job it had claimed for the first
\* time, and the row is still as it left it
C9_Orphaned ==
  /\ pc[1] = "crashed"
  /\ job[1].attempt = 1
  /\ jobs[job[1].id].status = "in_progress"
  /\ jobs[job[1].id].attempt = 1

\* C9: worker 1 claimed a job for the first time, acquired the lease, wrote
\* in_progress and was killed.  While less than LOCK_TIMEOUT_MS has passed
\* since its last write, claimJob finds no row and acquireRunLock is denied.
\* Once the timeout has passed, the other worker's recovery returns {1, 1},
\* its next claimJob returns the same job id with attempt 2, its
\* acquireRunLock is granted, and the job ends done.
C9_CrashRecovery ==
  /\ []((C9_Orphaned /\ now - jobs[job[1].id].updatedAt < LOCK_TIMEOUT_MS) =>
          /\ claimCandidates(jobs) = {}
          /\ ~acquireGranted(run_locks, job[1].runId, now))
  /\ [][(/\ C9_Orphaned
         /\ now - jobs[job[1].id].updatedAt >= LOCK_TIMEOUT_MS
         /\ pc[2] = "recover" /\ pc'[2] = "claim") =>
          recovered'[2] = [requeuedJobs |-> 1, releasedLocks |-> 1]
       ]_vars
  /\ [][(/\ pc[1] = "crashed" /\ job[1].attempt = 1
         /\ recovered[2] = [requeuedJobs |-> 1, releasedLocks |-> 1]
         /\ pc[2] = "claim" /\ pc'[2] # "claim") =>
          /\ job'[2].id = job[1].id
          /\ job'[2].attempt = 2
          /\ jobs'[job[1].id].attempt = 2
       ]_vars
  /\ [][(/\ pc[1] = "crashed" /\ job[1].attempt = 1
         /\ job[2].id = job[1].id
         /\ pc[2] = "acquire" /\ pc'[2] # "acquire") =>
          /\ pc'[2] = "inprogress"
          /\ {l.owner : l \in {x \in run_locks' : x.runId = job[2].runId}}
               = {2}
       ]_vars
  /\ (/\ C9_Orphaned
      /\ jobs[job[1].id].updatedAt + LOCK_TIMEOUT_MS <= MaxTime
      /\ Len(jobs) < MaxJobs)
       ~> (pc[1] = "crashed" /\ jobs[job[1].id].status = "done")

\* worker 2 has recovered, reclaimed and completed the job worker 1 died on
C9_Witness ==
  /\ pc[1] = "crashed"
  /\ job[1].attempt = 1
  /\ jobs[job[1].id].status = "done"
  /\ jobs[job[1].id].attempt = 2
  /\ jobs[job[1].id].lastError = RecoveredMsg

\* what updateHandoff returns for the handoff of run 1 and every choice of
\* parameters, where appends(note) says when the note is appended
C10_Update(appends(_)) ==
  handoff[1] # NoFile =>
    \A phase \in PhaseParams, status \in StatusParams, next \in NextParams,
       artifacts \in ArtifactsParams, note \in NoteParams :
      LET h == handoff[1]
          u == updateHandoff(h, phase, status, "handoff.json", nowIso, next,
                             artifacts, note)
      IN /\ Len(u.history) = Len(h.history) + 1
         /\ \A n \in DOMAIN h.history : u.history[n] = h.history[n]
         /\ u.history[Len(u.history)]
              = [phase |-> phase, status |-> status, endedAt |-> nowIso,
                 artifact |-> "handoff.json"]
         /\ u.phase = phase
         /\ u.status = status
         /\ \A k \in DOMAIN artifacts : u.artifacts[k] = artifacts[k]
         /\ \A k \in DOMAIN h.artifacts \ DOMAIN artifacts :
              u.artifacts[k] = h.artifacts[k]
         /\ u.notes = IF appends(note) THEN Append(h.notes, note) ELSE h.notes

C10_NonEmpty(note) == note # Undefined /\ note # ""

C10_Provided(note) == note # Undefined

\* C10 (amended): updateHandoff returns a handoff whose history is that of h
\* plus exactly one entry {phase, status, endedAt, artifact}, whose phase and
\* status are the entry's, whose artifacts are h's overridden by the partial
\* ones, and whose notes are h's plus the note iff a note is given and is
\* not the empty string.
C10_UpdateHandoff == C10_Update(C10_NonEmpty)

\* C10 as stated: ... and whose notes are h's plus the note iff a note is
\* given.
C10_AsStated == C10_Update(C10_Provided)

\* a handoff that went through two updates, one that appended its note and
\* one that did not
C10_Witness ==
  /\ handoff[1] # NoFile
  /\ Len(handoff[1].history) = 2
  /\ Len(handoff[1].notes) = 1

C12_Final ==
  /\ handoff[1] # NoFile
  /\ handoff[1].phase = "pr"
  /\ handoff[1].status = "completed"
  /\ handoff[1].next = Undefined
  /\ Len(handoff[1].history) = 5
  /\ [n \in 1..5 |-> handoff[1].history[n].phase]
       = <<"plan", "implement", "review", "test", "pr">>
  /\ \A n \in 1..5 : handoff[1].history[n].status = "completed"
  /\ Len(jobs) = 5
  /\ [n \in 1..5 |-> jobs[n].phase]
       = <<"plan", "implement", "review", "test", "pr">>
  /\ \A n \in 1..5 : /\ jobs[n].runId = 1
                     /\ jobs[n].status = "done"
                     /\ jobs[n].attempt = 1

\* C12: with one run, one worker, executors that succeed, a plan that
\* requires tests and an approving reviewer, the system reaches and keeps a
\* state where the handoff is pr/completed without next, its history is
\* plan, implement, review, test, pr, and the job table has exactly these
\* five jobs, all done with attempt 1.
C12_HappyPath == <>[]C12_Final

\* the pr job is acknowledged and the worker is back at the top of its loop
C12_Witness ==
  /\ C12_Final
  /\ pc[1] = "recover"
  /\ run_locks = {}

\* C13: a run whose reviewer always rejects gets no implement job beyond
\* its review retry budget (the first implementation plus maxReviewRetries
\* retries), and never a test job.
C13_ReviewRetryBudget ==
  /\ Cardinality({i \in DOMAIN jobs : jobs[i].phase = "implement"})
       <= maxReviewRetries + 1
  /\ \A i \in DOMAIN jobs : jobs[i].phase # "test"

\* C14: with two runs, two workers and executors that succeed, no job ever
\* fails or is cancelled (every job ends done), every job belongs to one of
\* the two runs, and the two workers are never both inside the lease of the
\* same run.
C14_TwoRuns ==
  /\ \A i \in DOMAIN jobs : /\ jobs[i].runId \in AllRuns
                            /\ jobs[i].status \in {"queued", "in_progress",
                                                   "done"}
  /\ \A r \in AllRuns :
       Cardinality({w \in Workers :
                      /\ pc[w] \in {"inprogress", "read", "prep", "exec",
                                    "enqueue", "ack", "catch", "failrun",
                                    "release"}
                      /\ job[w].runId = r}) <= 1

\* C15: when a worker starts processing a job (it holds the lease and is
\* about to read the handoff for the first time) and the handoff on disk has
\* status "cancelled", its next step raises "Run cancelled." and leaves the
\* handoff, the job table and the lease table as they are: no executor is
\* reached and nothing is enqueued.
C15_CancelledAtStart ==
  [][\A w \in Workers :
       (/\ pc[w] = "inprogress"
        /\ handoff[job[w].runId] # NoFile
        /\ handoff[job[w].runId].status = "cancelled"
        /\ pc'[w] \notin {"inprogress", "crashed"}) =>
          /\ pc'[w] = "catch"
          /\ message'[w] = CancelledMsg
          /\ handoff' = handoff
          /\ jobs' = jobs ]_vars

C17_HandlerFailure ==
  [][\A w \in Workers :
       (/\ pc[w] = "ack"
        /\ jobs[job[w].id].status = "in_progress"
        /\ handoff[job[w].runId] # NoFile
        /\ handoff[job[w].runId].status = "failed"
        /\ pc'[w] \notin {"ack", "crashed"}) =>
          /\ handoff[job[w].runId].next = Undefined
          /\ Len(jobs') = Len(jobs)
          /\ jobs'[job[w].id].status = "failed"
          /\ jobs'[job[w].id].lastError # NoError ]_vars

\* C18: with a reviewer that answers "blocked", once a review is recorded in
\* the handoff's history the run is failed without next, and no implement
\* job (beyond the one that was reviewed) and no test job is ever enqueued.
C18_ReviewBlocked ==
  (/\ handoff[1] # NoFile
   /\ \E k \in DOMAIN handoff[1].history :
        handoff[1].history[k].phase = "review")
    => /\ handoff[1].status = "failed"
       /\ handoff[1].next = Undefined
       /\ Cardinality({i \in DOMAIN jobs : jobs[i].phase = "implement"}) = 1
       /\ \A i \in DOMAIN jobs : jobs[i].phase # "test"

\* C19: with tests required and a tester whose status is not "passed", once
\* a test is recorded in the handoff's history the run is failed without
\* next, no job is enqueued after the test job, and no pr job exists.
C19_TestsNotPassed ==
  (/\ handoff[1] # NoFile
   /\ \E k \in DOMAIN handoff[1].history :
        handoff[1].history[k].phase = "test")
    => /\ handoff[1].status = "failed"
       /\ handoff[1].next = Undefined
       /\ \A i \in DOMAIN jobs : jobs[i].phase = "test" => i = Len(jobs)
       /\ \A i \in DOMAIN jobs : jobs[i].phase # "pr"

C21_RecoverTransaction ==
  [][\A w \in Workers :
       /\ (pc[w] = "recover_update" /\ pc'[w] = "recover_locks") =>
            \A i \in DOMAIN jobs :
              jobs'[i] # jobs[i] =>
                /\ jobs[i].status = "in_progress"
                /\ jobs[i].updatedAt <= now - LOCK_TIMEOUT_MS
       /\ (pc[w] = "recover_locks" /\ pc'[w] = "claim") =>
            \A l \in run_locks \ run_locks' :
              \/ l.lockedAt <= now - LOCK_TIMEOUT_MS
              \/ \E i \in recovering[w].requeued : jobs[i].runId = l.runId
     ]_vars

\* C22: right after a recoverStaleQueueState call has finished, every
\* in_progress job that a worker is processing (the worker was granted the
\* lease of the job's run and has not yet left the handler) has a lease row
\* for its run that is not stale.
C22_LiveJobHasLease ==
  [][(\E v \in Workers : pc[v] = "recover_locks" /\ pc'[v] = "claim") =>
       \A w \in Workers :
         (/\ pc'[w] \in {"inprogress", "read", "prep", "exec", "enqueue"}
          /\ jobs'[job'[w].id].status = "in_progress") =>
            \E l \in run_locks' :
              /\ l.runId = job'[w].runId
              /\ ~(l.lockedAt <= now' - LOCK_TIMEOUT_MS) ]_vars

\* C23: while a live worker w owns the lease of its job's run and the job
\* is in_progress (nobody cancels, and the heartbeat has fired in every
\* interval), no step of another worker's recoverStaleQueueState changes
\* w's job or removes w's lease, and no other worker's acquireRunLock for
\* that run is granted.
C23_HeartbeatProtects ==
  [][\A w \in Workers :
       (/\ pc[w] \in {"inprogress", "read", "prep", "exec", "enqueue", "ack"}
        /\ jobs[job[w].id].status = "in_progress"
        /\ \E l \in run_locks : l.runId = job[w].runId /\ l.owner = w) =>
         \A v \in Workers \ {w} :
           /\ (/\ pc[v] \in {"recover", "recover_update", "recover_locks"}
               /\ pc'[v] \notin {pc[v], "crashed"}) =>
                 /\ jobs'[job[w].id] = jobs[job[w].id]
                 /\ \E l \in run_locks' :
                      l.runId = job[w].runId /\ l.owner = w
           /\ (/\ pc[v] = "acquire"
               /\ job[v].runId = job[w].runId
               /\ pc'[v] \notin {"acquire", "crashed"}) =>
                 pc'[v] # "inprogress" ]_vars

\* C24: an iteration that was granted the lease leaves only through
\* releaseRunLock, whatever happened inside (success, a thrown error, a
\* failure of markRunInProgress); once it has left, the worker owns no lease
\* row; and a heartbeat (a step of the worker that touches rows without
\* moving it) only happens while the handler is awaiting.
C24_ReleaseOnEveryPath ==
  /\ [](\A w \in Workers :
          pc[w] \in {"recover", "claim"} =>
            \A l \in run_locks : l.owner # w)
  /\ [][\A w \in Workers :
          /\ (/\ pc[w] \in {"inprogress", "read", "prep", "exec", "enqueue",
                            "ack", "catch", "failrun", "release"}
              /\ pc'[w] \in {"recover", "claim", "acquire", "requeue"}) =>
               /\ pc[w] = "release"
               /\ pc'[w] = "recover"
               /\ \A l \in run_locks' : l.owner # w
          /\ (pc'[w] = pc[w] /\ ~beat[w] /\ beat'[w]) =>
               pc[w] \in {"prep", "exec"} ]_vars

\* the worker is back at the top of its loop after markRunInProgress failed:
\* the job is failed with the error and no lease is left
C24_Witness ==
  /\ pc[1] = "recover"
  /\ run_locks = {}
  /\ Len(jobs) = 1
  /\ jobs[1].status = "failed"
  /\ jobs[1].lastError = ExecError
  /\ handoff[1] # NoFile
  /\ handoff[1].status = "failed"
  /\ handoff[1].repoRoot = ""

\* C25: acquireRunLock(run_id, owner) is granted exactly when the run has no
\* lease row (a row with the owner and locked_at = now is inserted) or its
\* row is older than LOCK_TIMEOUT_MS (owner and locked_at are overwritten);
\* otherwise it is refused and run_locks is unchanged, also when the caller
\* owns the row.  Two workers that call it for the same run are never both
\* granted.
C25_AcquireLease ==
  /\ [](~(/\ pc[1] = "inprogress" /\ pc[2] = "inprogress"
          /\ job[1].runId = job[2].runId))
  /\ [][\A w \in Workers :
          (pc[w] = "acquire" /\ pc'[w] # "acquire") =>
            LET rows == {l \in run_locks : l.runId = job[w].runId}
                mine == [runId |-> job[w].runId, lockedAt |-> now,
                         owner |-> w]
                free == rows = {}
                old == \E l \in rows : now - l.lockedAt > LOCK_TIMEOUT_MS
            IN /\ (pc'[w] = "inprogress") <=> (free \/ old)
               /\ (pc'[w] = "requeue") <=> ~(free \/ old)
               /\ free => run_locks' = run_locks \cup {mine}
               /\ old => run_locks' = (run_locks \ rows) \cup {mine}
               /\ ~(free \/ old) => run_locks' = run_locks ]_vars

\* worker 1 took over a lease that was older than LOCK_TIMEOUT_MS, and
\* worker 2, asking for the same run afterwards, was refused
C25_Witness ==
  /\ now > LOCK_TIMEOUT_MS
  /\ job[1].runId = job[2].runId
  /\ pc[1] = "inprogress"
  /\ pc[2] = "requeue"
  /\ run_locks = {[runId |-> job[1].runId, lockedAt |-> now, owner |-> 1]}

\* C26: releaseRunLock(run_id, w) and touchRunLock(run_id, w) leave
\* run_locks unchanged whenever the run has no lease row or its row is owned
\* by someone other than w; and when a worker releases or heartbeats, every
\* lease row owned by someone else is still there, unchanged.
C26_OwnerOnly ==
  /\ [](\A r \in AllRuns, w \in Workers :
          (\A l \in run_locks : l.runId = r => l.owner # w) =>
            /\ releaseRunLock(run_locks, r, w) = run_locks
            /\ touchRunLock(run_locks, r, w, now) = run_locks)
  /\ [][\A w \in Workers :
          (\/ pc[w] = "release" /\ pc'[w] = "recover"
           \/ pc'[w] = pc[w] /\ ~beat[w] /\ beat'[w]) =>
            \A l \in run_locks : l.owner # w => l \in run_locks' ]_vars

\* a worker whose lease was force-released by `cancel` is about to call
\* releaseRunLock while the other worker holds the lease of the same run
C26_Witness ==
  \E w \in Workers, v \in Workers :
    /\ v # w
    /\ pc[w] = "release"
    /\ pc[v] \in {"prep", "exec"}
    /\ job[v].runId = job[w].runId
    /\ \E l \in run_locks : l.runId = job[w].runId /\ l.owner = v

\* C27: a job row starts with attempt 0; a step that claims it raises its
\* attempt by exactly 1; every other step (requeue, touch, done, failed,
\* cancel, recovery) leaves its attempt as it is.
C27_AttemptMonotone ==
  [][/\ Len(jobs') >= Len(jobs)
     /\ \A i \in DOMAIN jobs' :
          IF i \notin DOMAIN jobs
            THEN jobs'[i].attempt = 0
            ELSE IF \E w \in Workers : /\ pc[w] = "claim"
                                       /\ pc'[w] = "acquire"
                                       /\ job'[w].id = i
                   THEN jobs'[i].attempt = jobs[i].attempt + 1
                   ELSE jobs'[i].attempt = jobs[i].attempt ]_vars

\* worker 1 was killed holding its job at attempt 1; the job was recovered
\* and worker 2 has claimed it again, at attempt 2
C27_Witness ==
  /\ pc[1] = "crashed"
  /\ pc[2] = "acquire"
  /\ job[1].id = job[2].id
  /\ job[1].attempt = 1
  /\ job[2].attempt = 2
  /\ jobs[job[2].id].attempt = 2
  /\ jobs[job[2].id].status = "in_progress"

\* C28: every write of a run's handoff.json keeps its history: the history
\* is not shorter afterwards, and every entry that was there is still there,
\* unchanged and at the same position.
C28_HistoryAppendOnly ==
  [][\A r \in AllRuns :
       handoff[r] # NoFile =>
         /\ handoff'[r] # NoFile
         /\ Len(handoff'[r].history) >= Len(handoff[r].history)
         /\ \A k \in DOMAIN handoff[r].history :
              handoff'[r].history[k] = handoff[r].history[k] ]_vars

\* C29 as stated: on disk, a handoff with a non-empty history has
\* state.phase equal to the phase of its last history entry.
C29_AsStated ==
  \A r \in AllRuns :
    (handoff[r] # NoFile /\ handoff[r].history # <<>>) =>
      handoff[r].phase = handoff[r].history[Len(handoff[r].history)].phase

\* C29: on disk, a handoff with a non-empty history whose status is not
\* in_progress has state.phase equal to the phase of its last history entry;
\* the writes that leave status in_progress (markRunInProgress, and
\* handlePlan's write of the run metadata) set the phase without an entry.
C29_PhaseIsLastEntry ==
  \A r \in AllRuns :
    (/\ handoff[r] # NoFile
     /\ handoff[r].history # <<>>
     /\ handoff[r].status # "in_progress") =>
      handoff[r].phase = handoff[r].history[Len(handoff[r].history)].phase

\* the implement phase failed after a completed plan
C29_Witness ==
  /\ handoff[1] # NoFile
  /\ handoff[1].status = "failed"
  /\ handoff[1].phase = "implement"
  /\ Len(handoff[1].history) = 2
  /\ handoff[1].history[1].phase = "plan"
  /\ handoff[1].history[2].phase = "implement"

\* C30: whenever handoff.json on disk has status failed or cancelled, or
\* phase pr with status completed, it has no next.
C30_NoNextWhenTerminal ==
  \A r \in AllRuns :
    (/\ handoff[r] # NoFile
     /\ \/ handoff[r].status \in {"failed", "cancelled"}
        \/ handoff[r].phase = "pr" /\ handoff[r].status = "completed") =>
      handoff[r].next = Undefined

\* a run cancelled after its plan had completed (the handoff then named the
\* implementer as next)
C30_Witness ==
  /\ handoff[1] # NoFile
  /\ handoff[1].status = "cancelled"
  /\ handoff[1].next = Undefined
  /\ Len(handoff[1].history) = 2
  /\ handoff[1].history[1].phase = "plan"
  /\ handoff[1].history[1].status = "completed"
  /\ handoff[1].history[2].status = "cancelled"

\* C31: `run` first writes the run's handoff.json (phase plan, status queued,
\* empty history, next planner, repo root empty) and then inserts exactly one
\* job for the run (phase plan, status queued, attempt 0), changing no other
\* row; so whenever a job of a run exists, the run's handoff exists.
C31_Submit ==
  /\ [](\A i \in DOMAIN jobs : handoff[jobs[i].runId] # NoFile)
  /\ [][\A r \in AllRuns :
          /\ (submit[r] = "none" /\ submit'[r] # "none") =>
               /\ submit'[r] = "written"
               /\ jobs' = jobs
               /\ \A i \in DOMAIN jobs : jobs[i].runId # r
               /\ handoff'[r] # NoFile
               /\ handoff'[r].phase = "plan"
               /\ handoff'[r].status = "queued"
               /\ handoff'[r].history = <<>>
               /\ handoff'[r].next = "planner"
               /\ handoff'[r].repoRoot = ""
          /\ (submit[r] = "written" /\ submit'[r] # "written") =>
               /\ submit'[r] = "done"
               /\ handoff' = handoff
               /\ handoff[r] # NoFile
               /\ Len(jobs') = Len(jobs) + 1
               /\ \A i \in DOMAIN jobs : jobs'[i] = jobs[i] /\ jobs[i].runId # r
               /\ jobs'[Len(jobs')].runId = r
               /\ jobs'[Len(jobs')].phase = "plan"
               /\ jobs'[Len(jobs')].status = "queued"
               /\ jobs'[Len(jobs')].attempt = 0 ]_vars

\* both runs have been submitted and no worker has claimed anything yet
C31_Witness ==
  /\ submit[1] = "done"
  /\ submit[2] = "done"
  /\ Len(jobs) = 2
  /\ \A i \in DOMAIN jobs : /\ jobs[i].phase = "plan"
                            /\ jobs[i].status = "queued"
                            /\ jobs[i].attempt = 0
  /\ jobs[1].runId # jobs[2].runId
  /\ \A r \in AllRuns : handoff[r] # NoFile /\ handoff[r].status = "queued"

\* C32: in every state where `cancel` of a run can be issued, issuing it
\* twice in a row (at the same clock reading) leaves the job table,
\* run_locks and the run's handoff.json as the first one left them.
C32_CancelIdempotent ==
  \A r \in AllRuns :
    submit[r] = "done" =>
      LET j1 == cancelRunJobs(jobs, r, nowIso)
          l1 == forceReleaseRunLock(run_locks, r)
          h1 == cancelHandoff(handoff[r], nowIso)
      IN /\ cancelRunJobs(j1, r, nowIso) = j1
         /\ forceReleaseRunLock(l1, r) = l1
         /\ cancelHandoff(h1, nowIso) = h1

(* A queue-store error (SQLITE_BUSY, an I/O error) raised by one of the    *)
(* queue calls of a worker iteration.  The calls inside the try block of   *)
(* the loop head are caught: the worker logs, sleeps and starts the next   *)
(* iteration.  claimJob runs in a transaction, so it leaves no row changed. *)
QueueMaintenanceThrows(w) ==
  /\ pc[w] \in {"recover", "claim"}
  /\ pc' = [pc EXCEPT ![w] = "recover"]
  /\ recovered' = [recovered EXCEPT ![w] = NoRecovery]
  /\ UNCHANGED <<now, jobs, run_locks, handoff, submit, job, wh, recovering,
                 message, beat, cancels, disk, impl>>

\* markJobFailed("Max attempts exceeded."), acquireRunLock and requeueJob
\* are awaited outside every try block: their rejection leaves the
\* `while (true)` loop and the command's action, and the process ends with
\* the claimed row still in_progress.
QueueThrows(w) ==
  /\ pc[w] \in {"acquire", "requeue"}
  /\ pc' = [pc EXCEPT ![w] = "crashed"]
  /\ wh' = [wh EXCEPT ![w] = NoFile]
  /\ message' = [message EXCEPT ![w] = ""]
  /\ beat' = [beat EXCEPT ![w] = FALSE]
  /\ recovered' = [recovered EXCEPT ![w] = NoRecovery]
  /\ UNCHANGED <<now, jobs, run_locks, handoff, submit, job, recovering,
                 cancels, disk, impl>>

(* Two runs, two workers, executors that succeed, and a queue store that   *)
(* may fail under any queue call of the loop head.                         *)
NextQueueError ==
  \/ \E r \in AllRuns : SubmitWrite(r)
  \/ \E r \in AllRuns : SubmitEnqueue(r)
  \/ \E w \in Workers : CrashWorkerStep(w)
  \/ \E w \in Workers : QueueMaintenanceThrows(w)
  \/ \E w \in Workers : QueueThrows(w)
  \/ Tick

SpecQueueError == Init /\ [][NextQueueError]_vars

\* C33: a queue-store error in a queue call of the loop head never ends a
\* worker (a worker that runs keeps running), and every in_progress job is
\* the job some running worker is processing.
C33_QueueErrorIsNoOp ==
  /\ [](\A i \in DOMAIN jobs :
          jobs[i].status = "in_progress" =>
            \E w \in Workers : alive(w) /\ job[w] # NoJob /\ job[w].id = i)
  /\ [][\A w \in Workers : alive(w) => alive(w)']_vars

NextKeep ==
  \/ \E keep \in BOOLEAN : SubmitWriteKeeping(1, keep)
  \/ SubmitEnqueue(1)
  \/ FailStepWithin(1, MaxHappyJobs + 1)
  \/ Tick

SpecKeep == Init /\ [][NextKeep]_vars

prDone(r) ==
  \E i \in DOMAIN jobs :
    jobs[i].runId = r /\ jobs[i].phase = "pr" /\ jobs[i].status = "done"

\* C35: once the pr job of a run is done, handoff.json has phase pr, status
\* completed and no next, the run has no queued or in_progress job and no
\* job is inserted any more, and the workspace exists exactly when
\* run.keepWorkspace is true; before that the workspace is not removed.
C35_PrTerminal ==
  /\ [](\A r \in AllRuns :
          /\ prDone(r) =>
               /\ handoff[r].phase = "pr"
               /\ handoff[r].status = "completed"
               /\ handoff[r].next = Undefined
               /\ \A i \in DOMAIN jobs :
                    jobs[i].runId = r => jobs[i].status \in {"done", "failed"}
               /\ disk[r].workspace = handoff[r].keepWorkspace
          /\ (handoff[r] # NoFile /\ handoff[r].repoRoot # ""
              /\ ~disk[r].workspace) =>
               /\ handoff[r].phase = "pr" /\ handoff[r].status = "completed"
               /\ ~handoff[r].keepWorkspace)
  /\ [][\A r \in AllRuns : prDone(r) => Len(jobs') = Len(jobs)]_vars

\* the worker is back at the head of its loop after the pr job of a run
\* submitted without --keep-workspace
C35_Witness ==
  /\ prDone(1)
  /\ Len(jobs) = 5
  /\ ~handoff[1].keepWorkspace
  /\ ~disk[1].workspace
  /\ handoff[1].phase = "pr" /\ handoff[1].status = "completed"
  /\ handoff[1].next = Undefined
  /\ pc[1] = "claim"

(* ------------------- state-machine.ts: runImplementor ------------------ *)
MaxSteps == 2
MaxActions == 2
Paths == {"a.ts", "b.ts"}
Absent == "absent"

\* a proposed action: write_file / delete_file of a path
ProposedActions == [type : {"write_file", "delete_file"}, path : Paths]

ActionLists == UNION {[1..n -> ProposedActions] : n \in 0..MaxActions}

\* what runImplementorStep returns for a step once its retries are over:
\* completed with a list of proposed actions, or blocked on every attempt
StepResults == [status : {"completed"}, proposed_actions : ActionLists]
                 \cup {[status |-> "blocked", proposed_actions |-> <<>>]}

\* a check that looks at the first proposed action only
invalidFirst(actions, allowed) ==
  SelectSeq(SubSeq(actions, 1, 1), LAMBDA a : a.path \notin allowed)

\* stepResult.proposed_actions.filter((action) => !allowedSet.has(action.path))
invalidActions(actions, allowed) ==
  SelectSeq(actions, LAMBDA a : a.path \notin allowed)

\* applyProposedActionsToRepo: rm or writeFile, one action after the other
RECURSIVE applyProposedActionsToRepo(_, _)
applyProposedActionsToRepo(files, actions) ==
  IF actions = <<>> THEN files
  ELSE applyProposedActionsToRepo(
         [files EXCEPT ![Head(actions).path] =
            IF Head(actions).type = "delete_file" THEN Absent ELSE "new"],
         Tail(actions))

\* one runImplementor call over a repository whose files all exist
InitImplementor ==
  /\ now = 0
  /\ jobs = <<>>
  /\ run_locks = {}
  /\ handoff = [r \in AllRuns |-> NoFile]
  /\ submit = [r \in AllRuns |-> "none"]
  /\ pc = [w \in Workers |-> "recover"]
  /\ job = [w \in Workers |-> NoJob]
  /\ wh = [w \in Workers |-> NoFile]
  /\ recovered = [w \in Workers |-> NoRecovery]
  /\ recovering = [w \in Workers |-> NotRecovering]
  /\ disk = [r \in AllRuns |-> NoDisk]
  /\ message = [w \in Workers |-> ""]
  /\ beat = [w \in Workers |-> FALSE]
  /\ cancels = <<>>
  /\ \E n \in 1..MaxSteps, allowed \in SUBSET Paths :
       \E steps \in [1..n -> StepResults] :
         impl = [steps |-> steps, allowed_files |-> allowed,
                 files |-> [p \in Paths |-> "old"],
                 applied |-> <<>>, result |-> "running"]

\* one iteration of `for (const step of handoff.steps)`: the retries of
\* runImplementorStep, then the proposed actions or the diff of the result
ImplementStep ==
  /\ impl.result = "running"
  /\ impl.steps # <<>>
  /\ LET stepResult == Head(impl.steps)
         actions == stepResult.proposed_actions
     IN impl' =
          IF stepResult.status # "completed"
            THEN \* "Implementor retries exhausted."
                 [impl EXCEPT !.result = "error"]
          ELSE IF Len(actions) > 0
            THEN IF Len(invalidActions(actions, impl.allowed_files)) > 0
                   THEN \* "Proposed actions include disallowed files."
                        [impl EXCEPT !.result = "error"]
                   ELSE [impl EXCEPT
                           !.files = applyProposedActionsToRepo(@, actions),
                           !.applied = @ \o actions,
                           !.steps = Tail(@)]
          ELSE \* applyPatchToRepo(stepResult.diff): the diff is not modelled
               [impl EXCEPT !.steps = Tail(@)]
  /\ UNCHANGED <<now, jobs, run_locks, handoff, submit, pc, job, wh,
                 recovered, recovering, disk, message, beat, cancels>>

\* the loop is over: the rest of runImplementor builds the result
ImplementDone ==
  /\ impl.result = "running"
  /\ impl.steps = <<>>
  /\ impl' = [impl EXCEPT !.result = "ok"]
  /\ UNCHANGED <<now, jobs, run_locks, handoff, submit, pc, job, wh,
                 recovered, recovering, disk, message, beat, cancels>>

NextImplementor ==
  \/ ImplementStep
  \/ ImplementDone

SpecImplementor == InitImplementor /\ [][NextImplementor]_vars

\* C36: a step whose result proposes an action on a path outside
\* allowed_files ends the call with an error and changes no file; the
\* repository changes only in a step all of whose paths are allowed, and
\* such a step applies every one of its actions, in order.
C36_DisallowedRejected ==
  [][LET actions == Head(impl.steps).proposed_actions
         outside == \E k \in DOMAIN actions :
                      actions[k].path \notin impl.allowed_files
     IN (impl.result = "running" /\ impl.steps # <<>>
         /\ Head(impl.steps).status = "completed" /\ Len(actions) > 0) =>
          /\ outside =>
               /\ impl'.result = "error"
               /\ impl'.files = impl.files
               /\ impl'.applied = impl.applied
          /\ ~outside =>
               /\ impl'.result = "running"
               /\ impl'.applied = impl.applied \o actions
               /\ \A p \in Paths :
                    LET on == {k \in DOMAIN actions : actions[k].path = p}
                        last == CHOOSE k \in on : \A m \in on : m <= k
                    IN impl'.files[p] =
                         IF on = {} THEN impl.files[p]
                         ELSE IF actions[last].type = "delete_file"
                                THEN Absent ELSE "new"]_vars

\* the second step is rejected for its second action after the first step
\* was applied: the file of the first step is written, that of the rejected
\* step's first action is untouched
C36_Witness ==
  /\ impl.result = "error"
  /\ Len(impl.applied) = 1
  /\ impl.allowed_files = {"a.ts"}
  /\ impl.files["a.ts"] = "new"
  /\ impl.files["b.ts"] = "old"
  /\ Len(impl.steps) = 1
  /\ Len(impl.steps[1].proposed_actions) = 2
  /\ impl.steps[1].proposed_actions[1] =
       [type |-> "delete_file", path |-> "a.ts"]
  /\ impl.steps[1].proposed_actions[2].path = "b.ts"

\* the job row a worker has dispatched to its phase handler
dispatched(i) ==
  \E w \in Workers :
    /\ job[w] # NoJob /\ job[w].id = i
    /\ pc[w] \in {"inprogress", "read", "prep", "exec", "enqueue", "ack",
                  "catch", "failrun"}

\* C37: with executors that succeed and no worker killed, a job that has been
\* dispatched to its handler stays in_progress until it is done and is never
\* claimed again, so no job is dispatched MAX_ATTEMPTS times; hence no job
\* may ever be failed with "Max attempts exceeded.": claims that end in a
\* denied lease and a requeue must not use up the job's tries.
C37_RequeueKeepsTries ==
  \A i \in DOMAIN jobs : jobs[i].lastError # MaxAttemptsMsg

\* a dispatched job is not requeued, failed or claimed again
C37_DispatchedOnce ==
  [][\A i \in DOMAIN jobs :
       /\ dispatched(i) => jobs'[i].status \in {"in_progress", "done"}
       /\ jobs[i].status = "done" => jobs'[i] = jobs[i]]_vars

\* C38: a submitted run that has no queued or in_progress job and that no
\* worker is working on has a terminal handoff: failed, cancelled, or phase
\* pr completed.
C38_NoStuckRun ==
  \A r \in AllRuns :
    (/\ submit[r] = "done"
     /\ \A i \in DOMAIN jobs :
          jobs[i].runId = r => jobs[i].status \notin {"queued", "in_progress"}
     /\ \A w \in Workers : job[w] = NoJob \/ job[w].runId # r) =>
      \/ handoff[r].status \in {"failed", "cancelled"}
      \/ handoff[r].phase = "pr" /\ handoff[r].status = "completed"

(* A worker killed between enqueueNext and markJobDone: one run, two       *)
(* workers, executors that succeed; worker 1 may be killed once its        *)
(* handler has written handoff.json and enqueued the next phase's job.     *)
CrashAfterEnqueue ==
  /\ pc[1] = "ack"
  /\ Crash(1)

NextRedo ==
  \/ \E r \in Runs : SubmitWrite(r)
  \/ \E r \in Runs : SubmitEnqueue(r)
  \/ \E w \in Workers : CrashWorkerStep(w)
  \/ CrashAfterEnqueue
  \/ Tick

SpecRedo == Init /\ [][NextRedo]_vars

\* C39: with executors that succeed (every phase of a run is due once), a
\* run never has two job rows for one phase, and its handoff history never
\* has two completed entries for one phase, also when a worker was killed
\* after enqueueNext and its job was recovered and executed again.
C39_NoDuplicateOnRedo ==
  \A r \in Runs :
    /\ \A i, k \in DOMAIN jobs :
         (jobs[i].runId = r /\ jobs[k].runId = r
          /\ jobs[i].phase = jobs[k].phase) => i = k
    /\ handoff[r] # NoFile =>
         \A i, k \in DOMAIN handoff[r].history :
           (/\ handoff[r].history[i].status = "completed"
            /\ handoff[r].history[k].status = "completed"
            /\ handoff[r].history[i].phase = handoff[r].history[k].phase) =>
             i = k

====
